---- MODULE Spec2Model ----
(***************************************************************************)
(* Model of django_wcag_zoo_runner (src/src/django_wcag_zoo_runner):       *)
(* runner.py's route classifier, coverage check, resilient fetch,          *)
(* validator pipeline and main().                                          *)
(*                                                                         *)
(* Strings the code inspects character by character (route patterns, plan  *)
(* entries, Content-Type headers) are sequences of one-character strings.  *)
(***************************************************************************)
EXTENDS Integers, Sequences, FiniteSets, TLC

VARIABLES
    routes,         \* project_urls(): the pattern (url[1]) of every route
    plan,           \* urls: [include, exclude, complex], lists of strings
    planSource,     \* "none" | "authored" (ini file) | "generated"
    covPc,          \* coverage specification: "start" | "planned" | "verified"
    covResult,      \* what test_coverage did: [gaps, raised, checked]
    pc,             \* position in main()
    gatherFlag,     \* args.gather_urls
    confFile,       \* the ini file on disk: "unparsable" | "absent" | "include"
    idx,            \* index into urls["include"] of the for loop of main
    url,            \* the sanitised url of the current iteration
    started,        \* number of subprocess.Popen calls made by run_server
    terminateCalls, \* number of a.terminate() calls
    exc,            \* the exception in flight or that ended main, or NoExc
    retries,        \* get_url: local retries
    delay,          \* get_url: local delay
    attempts,       \* number of requests.get calls of the current get_url
    sleeps,         \* arguments of the time.sleep calls of the current get_url
    causes,         \* exceptions requests.get raised in the current get_url
    getUrlStatus,   \* "idle" | "running" | "returned" | "raised"
    contentType,    \* Content-Type header of the fetched response, or NoHeader
    toolIdx,        \* wcag_on_url: index of the next tool in tools
    results,        \* wcag_on_url: local results
    outputs,        \* what validate_document returned, per call, for this page
    instantiated,   \* number of tool(...) instantiations for this page
    displayed,      \* number of display_results calls
    fetched,        \* the urls passed to get_url so far, in order
    call,           \* pure-function specifications: the arguments of the call
    ret,            \* pure-function specifications: what the call produced
    callPc          \* pure-function specifications: "start" | "done"

vars == <<routes, plan, planSource, covPc, covResult, pc, gatherFlag, confFile,
          idx, url, started, terminateCalls, exc, retries, delay, attempts,
          sleeps, causes, getUrlStatus, contentType, toolIdx, results, outputs,
          instantiated, displayed, fetched, call, ret, callPc>>

pureVars == <<call, ret, callPc>>

covVars == <<routes, plan, planSource, covPc, covResult>>

mainVars == <<pc, gatherFlag, confFile, idx, url, started, terminateCalls, exc,
              retries, delay, attempts, sleeps, causes, getUrlStatus,
              contentType, toolIdx, results, outputs, instantiated, displayed,
              fetched, pureVars>>

----------------------------------------------------------------------------
(* Generic helpers *)

Range(s) == {s[k] : k \in 1..Len(s)}

SeqsUpTo(S, n) == UNION {[1..k -> S] : k \in 0..n}

StartsWith(s, p) == Len(s) >= Len(p) /\ SubSeq(s, 1, Len(p)) = p

RECURSIVE SumSeq(_)
SumSeq(s) == IF s = <<>> THEN 0 ELSE Head(s) + SumSeq(Tail(s))

----------------------------------------------------------------------------
(* Python's re module, restricted to the alphabet of the pools below:      *)
(* "." matches any character, "x*" repeats x, "(" opens a group (never     *)
(* closed here: there is no ")" in the alphabet), every other character is *)
(* a literal.                                                              *)

\* re.compile(p) succeeds: re.error is raised for an unterminated "(", for a
\* leading "*" (nothing to repeat) and for "**" (multiple repeat).
RegexValid(p) ==
    /\ \A k \in 1..Len(p) : p[k] # "("
    /\ (Len(p) >= 1 => p[1] # "*")
    /\ \A k \in 1..(Len(p) - 1) : ~(p[k] = "*" /\ p[k + 1] = "*")

CharMatches(c, ch) == c = "." \/ c = ch

RECURSIVE MatchHere(_, _)
RECURSIVE MatchStar(_, _, _)
\* the pattern p matches at the start of s (a prefix match)
MatchHere(p, s) ==
    IF p = <<>> THEN TRUE
    ELSE IF Len(p) >= 2 /\ p[2] = "*"
         THEN MatchStar(p[1], SubSeq(p, 3, Len(p)), s)
         ELSE /\ s # <<>>
              /\ CharMatches(p[1], s[1])
              /\ MatchHere(Tail(p), Tail(s))

MatchStar(c, p, s) ==
    \/ MatchHere(p, s)
    \/ (s # <<>> /\ CharMatches(c, s[1]) /\ MatchStar(c, p, Tail(s)))

\* re.compile(p).match(s) is not None, for a valid p
RegexMatch(p, s) == MatchHere(p, s)

----------------------------------------------------------------------------
(* Route classifier: runner.py, url_test_excluded_path ..                  *)
(* generate_default_urls                                                   *)

excluded_starts ==
    << <<"a", "d", "m", "i", "n">>,
       <<"m", "e", "d", "i", "a">>,
       <<"s", "t", "a", "t", "i", "c">>,
       <<"_", "_", "d", "e", "b", "u", "g", "_", "_">> >>

url_test_excluded_path(u) ==
    \E k \in 1..Len(excluded_starts) : StartsWith(u, excluded_starts[k])

\* re.search(".*<.*>.*", url) is not None
url_test_includes_values(u) ==
    \E i \in 1..Len(u) : \E j \in (i + 1)..Len(u) : u[i] = "<" /\ u[j] = ">"

EmptyUrls == [include |-> <<>>, exclude |-> <<>>, complex |-> <<>>]

ClassifyInto_NoElif(urls, i) ==
    LET e == IF url_test_excluded_path(i)
             THEN [urls EXCEPT !.exclude = Append(@, i)] ELSE urls
    IN IF url_test_includes_values(i)
       THEN [e EXCEPT !.complex = Append(@, i)]
       ELSE IF url_test_excluded_path(i) THEN e
            ELSE [e EXCEPT !.include = Append(@, i)]

\* one iteration of the for loop of generate_default_urls
ClassifyInto(urls, i) ==
    IF url_test_excluded_path(i)
    THEN [urls EXCEPT !.exclude = Append(@, i)]
    ELSE IF url_test_includes_values(i)
         THEN [urls EXCEPT !.complex = Append(@, i)]
         ELSE [urls EXCEPT !.include = Append(@, i)]

RECURSIVE ClassifyFrom(_, _, _)
ClassifyFrom(allurls, k, urls) ==
    IF k > Len(allurls) THEN urls
    ELSE ClassifyFrom(allurls, k + 1, ClassifyInto(urls, allurls[k]))

generate_default_urls(allurls) == ClassifyFrom(allurls, 1, EmptyUrls)

----------------------------------------------------------------------------
(* Coverage check: runner.py, test_coverage                                *)

\* url = f"/{i[1]}"
CanonicalPath(r) == <<"/">> \o r

\* for j in urls["include"]: if r.match(j): found; break
RECURSIVE IncludeLoop(_, _, _)
IncludeLoop(u, include, k) ==
    IF k > Len(include) THEN FALSE
    ELSE IF RegexMatch(u, include[k]) THEN TRUE
    ELSE IncludeLoop(u, include, k + 1)

RECURSIVE ExcludeLoop_AbortOnInvalid(_, _, _)
ExcludeLoop_AbortOnInvalid(u, exclude, k) ==
    IF k > Len(exclude) THEN FALSE
    ELSE IF ~RegexValid(exclude[k]) THEN FALSE
    ELSE IF RegexMatch(exclude[k], u) THEN TRUE
    ELSE ExcludeLoop_AbortOnInvalid(u, exclude, k + 1)

\* for j in urls["exclude"]: try: r = re.compile(j) except re.error: continue
RECURSIVE ExcludeLoop(_, _, _)
ExcludeLoop(u, exclude, k) ==
    IF k > Len(exclude) THEN FALSE
    ELSE IF ~RegexValid(exclude[k]) THEN ExcludeLoop(u, exclude, k + 1)
    ELSE IF RegexMatch(exclude[k], u) THEN TRUE
    ELSE ExcludeLoop(u, exclude, k + 1)

Proposed_IncludeOnly(urls) == urls.include

\* proposed = list(urls["include"]) + list(urls["exclude"])
Proposed(urls) == urls.include \o urls.exclude

\* the body of the for loop over django_urls, for the route pattern r:
\* "found", "gap" (the warning is logged) or "error" (re.compile(url) raises)
CoverRoute(urls, r) ==
    LET u == CanonicalPath(r) IN
    IF u \in Range(Proposed(urls)) THEN "found"
    ELSE IF ~RegexValid(u) THEN "error"
    ELSE IF IncludeLoop(u, urls.include, 1) THEN "found"
    ELSE IF ExcludeLoop(u, urls.exclude, 1) THEN "found"
    ELSE "gap"

RECURSIVE CoverageFrom(_, _, _, _)
CoverageFrom(urls, django_urls, k, gaps) ==
    IF k > Len(django_urls)
    THEN [gaps |-> gaps, raised |-> FALSE, checked |-> Len(django_urls)]
    ELSE LET c == CoverRoute(urls, django_urls[k]) IN
         IF c = "error"
         THEN [gaps |-> gaps, raised |-> TRUE, checked |-> k - 1]
         ELSE CoverageFrom(urls, django_urls, k + 1,
                  IF c = "gap"
                  THEN Append(gaps, CanonicalPath(django_urls[k]))
                  ELSE gaps)

\* gaps: the paths of the "Couldn't find a match" warnings, in order;
\* raised: re.error left the function; checked: routes fully processed
test_coverage(urls, django_urls) == CoverageFrom(urls, django_urls, 1, <<>>)

NoCoverage == [gaps |-> <<>>, raised |-> FALSE, checked |-> 0]

----------------------------------------------------------------------------
(* Resilient fetch: runner.py, get_url                                     *)

\* what requests.get can raise: the transport-layer failures, an error of
\* unrelated code (TypeError) and an interrupt, which is no Exception
TransportKinds ==
    {"ConnectionRefusedError", "requests.ConnectionError", "requests.Timeout"}
FailKinds == TransportKinds \cup {"TypeError", "KeyboardInterrupt"}

ExceptionSubclasses == FailKinds \ {"KeyboardInterrupt"}

\* except (requests.HTTPError, ConnectionError, TimeoutError,
\*         ConnectionRefusedError, Exception) as e
ExceptClauseCatches(kind) ==
    \/ kind \in {"requests.HTTPError", "ConnectionError", "TimeoutError",
                 "ConnectionRefusedError"}
    \/ kind \in ExceptionSubclasses

InitialRetries == 3
InitialDelay == 1

CanRetry_OneMore(r) == r >= 0

\* if retries > 0
CanRetry(r) == r > 0

NextDelay_Linear(d) == d + 1

\* delay *= 2
NextDelay(d) == d * 2

\* raise ConnectionError("Failed to reach server") from e
FailedToReachServer(e) == [kind |-> "ConnectionError", cause |-> e]

----------------------------------------------------------------------------
(* Validator pipeline: runner.py, wcag_tool_on_content, combine_results,   *)
(* wcag_on_url                                                             *)

NoExc == [kind |-> "none"]
NoHeader == <<"-">>

TextHtml == <<"t", "e", "x", "t", "/", "h", "t", "m", "l">>

ContentTypes ==
    { TextHtml,
      TextHtml \o <<";", " ", "c", "h", "a", "r", "s", "e", "t", "=",
                    "u", "t", "f", "-", "8">>,
      <<"a", "p", "p", "l", "i", "c", "a", "t", "i", "o", "n", "/",
        "j", "s", "o", "n">>,
      <<"t", "e", "x", "t", "/", "p", "l", "a", "i", "n">> }

IsHtmlContent_AnyText(ct) == StartsWith(ct, <<"t", "e", "x", "t", "/">>)

\* content_type.startswith("text/html")
IsHtmlContent(ct) == StartsWith(ct, TextHtml)

tools == <<"Tarsier", "Anteater", "Ayeaye", "Molerat">>

CanonicalKeys == <<"success", "failures", "warnings", "skipped">>

\* {i: [] for i in ["success", "failures", "warnings", "skipped"]}
EmptyResults == [h \in Range(CanonicalKeys) |-> <<>>]

\* A dict is a sequence of <<key, value>> pairs, in insertion order.
DictKeys(d) == {d[k][1] : k \in 1..Len(d)}
DictGet(d, key) == (CHOOSE k \in 1..Len(d) : d[k][1] = key)
DictValue(d, key) == d[DictGet(d, key)][2]

\* k["url"] = url
StampAll_Unstamped(findings, u) == findings

StampAll(findings, u) ==
    [k \in 1..Len(findings) |-> [findings[k] EXCEPT !.url = u]]

\* for j in results[h][i]: for k in results[h][i][j]
RECURSIVE FlattenSubs(_, _)
FlattenSubs(subs, u) ==
    IF subs = <<>> THEN <<>>
    ELSE StampAll(Head(subs)[2], u) \o FlattenSubs(Tail(subs), u)

\* for i in results[h]
RECURSIVE FlattenGroups(_, _)
FlattenGroups(groups, u) ==
    IF groups = <<>> THEN <<>>
    ELSE FlattenSubs(Head(groups)[2], u) \o FlattenGroups(Tail(groups), u)

\* results[h] raises KeyError for a key of flat_results the output lacks
ToolRaisesKeyError(out) == \E h \in Range(CanonicalKeys) : h \notin DictKeys(out)

\* the flat_results wcag_tool_on_content returns for the output out of
\* validate_document
wcag_tool_on_content(out, u) ==
    [h \in Range(CanonicalKeys) |-> FlattenGroups(DictValue(out, h), u)]

CombineRaises_MissingOnly(res1, res2) == ~(DOMAIN res1 \subseteq DOMAIN res2)

\* if res1.keys() != res2.keys(): raise KeyError
CombineRaises(res1, res2) == DOMAIN res1 # DOMAIN res2

combine_results_SecondFirst(res1, res2) ==
    [i \in DOMAIN res1 |-> res2[i] \o res1[i]]

combine_results_FirstTwice(res1, res2) ==
    [i \in DOMAIN res1 |-> res1[i] \o res1[i]]

combine_results(res1, res2) == [i \in DOMAIN res1 |-> res1[i] \o res2[i]]

----------------------------------------------------------------------------
(* main(): runner.py, sanitise_url and main                                *)

\* s.replace(old, new), old not empty
RECURSIVE Replace(_, _, _)
Replace(s, old, new) ==
    IF Len(s) < Len(old) THEN s
    ELSE IF StartsWith(s, old)
         THEN new \o Replace(SubSeq(s, Len(old) + 1, Len(s)), old, new)
         ELSE <<Head(s)>> \o Replace(Tail(s), old, new)

sanitise_url(u) ==
    Replace(Replace(u, <<"\\", "Z">>, <<>>), <<"\\", ".">>, <<".">>)

LoopUrls_WithComplex(urls) == urls.include \o urls.complex

\* for url in urls["include"]
LoopUrls(urls) == urls.include

\* f"http://{host}:{port}{url}", host and port at their defaults
PageUrl(u) == <<"http://0.0.0.0:8799">> \o u

----------------------------------------------------------------------------
(* Inputs of the coverage specification *)

MaxRoutes == 2
MaxInclude == 1
MaxExclude == 1

\* route patterns as Django reports them (no leading "/")
RoutePool ==
    { <<>>,
      <<"a">>,
      <<".">>,
      <<"a", "(">>,
      <<"a", "d", "m", "i", "n">>,
      <<"<", "a", ">">> }

\* entries of the [include] and [exclude] sections of an ini file
PlanPool ==
    { <<"/">>,
      <<"/", "a">>,
      <<"/", ".">>,
      <<"/", "a", "(">>,
      <<"/", "a", "d", "m", "i", "n">> }

RouteTables == SeqsUpTo(RoutePool, MaxRoutes)

AuthoredPlans ==
    { [include |-> i, exclude |-> e, complex |-> <<>>] :
        i \in SeqsUpTo(PlanPool, MaxInclude),
        e \in SeqsUpTo(PlanPool, MaxExclude) }

----------------------------------------------------------------------------
(* Values of main()'s variables while main() is not running *)


\* values of the variables of the pure-function specifications elsewhere
PureIdle ==
    /\ call = <<>>
    /\ ret = <<>>
    /\ callPc = "idle"

MainIdle ==
    /\ pc = "idle"
    /\ gatherFlag = FALSE
    /\ confFile = "absent"
    /\ idx = 0
    /\ url = <<>>
    /\ started = 0
    /\ terminateCalls = 0
    /\ exc = NoExc
    /\ retries = 0
    /\ delay = 0
    /\ attempts = 0
    /\ sleeps = <<>>
    /\ causes = <<>>
    /\ getUrlStatus = "idle"
    /\ contentType = NoHeader
    /\ toolIdx = 0
    /\ results = EmptyResults
    /\ outputs = <<>>
    /\ instantiated = 0
    /\ displayed = 0
    /\ fetched = <<>>
    /\ PureIdle

----------------------------------------------------------------------------
(* Coverage specification: a route table, a plan that is either read from  *)
(* an ini file or generated from the table, then test_coverage.            *)

InitCov ==
    /\ routes \in RouteTables
    /\ plan = EmptyUrls
    /\ planSource = "none"
    /\ covPc = "start"
    /\ covResult = NoCoverage
    /\ MainIdle

\* urls = config, an ini file with an [include] section
CovAuthored ==
    /\ covPc = "start"
    /\ \E p \in AuthoredPlans : plan' = p
    /\ planSource' = "authored"
    /\ covPc' = "planned"
    /\ UNCHANGED <<routes, covResult>>
    /\ UNCHANGED mainVars

\* urls = generate_default_urls()
CovGenerate ==
    /\ covPc = "start"
    /\ plan' = generate_default_urls(routes)
    /\ planSource' = "generated"
    /\ covPc' = "planned"
    /\ UNCHANGED <<routes, covResult>>
    /\ UNCHANGED mainVars

\* test_coverage(urls, logger)
CovVerify ==
    /\ covPc = "planned"
    /\ covResult' = test_coverage(plan, routes)
    /\ covPc' = "verified"
    /\ UNCHANGED <<routes, plan, planSource>>
    /\ UNCHANGED mainVars

NextCov == CovAuthored \/ CovGenerate \/ CovVerify

SpecCov == InitCov /\ [][NextCov]_vars

----------------------------------------------------------------------------
(* Claims about test_coverage and generate_default_urls (SpecCov) *)

GapReported(p) == p \in Range(covResult.gaps)

\* the route at position k was processed before test_coverage ended
Processed(r) == \E m \in 1..covResult.checked : routes[m] = r

LiteralEntry(p) == p \in Range(plan.include) \cup Range(plan.exclude)

ExcludeRegexCovers(p) ==
    \E k \in 1..Len(plan.exclude) :
        RegexValid(plan.exclude[k]) /\ RegexMatch(plan.exclude[k], p)

\* the live route, compiled as a regular expression, matches an include entry
RouteRegexCoversInclude(p) ==
    /\ RegexValid(p)
    /\ \E k \in 1..Len(plan.include) : RegexMatch(p, plan.include[k])

\* an include entry, compiled as a regular expression, matches the live route
IncludeRegexCovers(p) ==
    \E k \in 1..Len(plan.include) :
        RegexValid(plan.include[k]) /\ RegexMatch(plan.include[k], p)

\* the first route whose path is neither a literal plan entry nor a valid
\* regular expression, or 0
FirstBadRoute ==
    LET bad == {k \in 1..Len(routes) :
                   /\ ~LiteralEntry(CanonicalPath(routes[k]))
                   /\ ~RegexValid(CanonicalPath(routes[k]))}
    IN IF bad = {} THEN 0 ELSE CHOOSE k \in bad : \A m \in bad : k <= m

\* C5 as stated: a gap is reported for a live route iff its path is not a
\* literal member of plan.include, no include entry compiled as a regular
\* expression prefix-matches it, and no valid exclude entry prefix-matches it.
C5_GapIffNoIncludeRegexCovers ==
    covPc = "verified" =>
        \A k \in 1..Len(routes) :
            LET p == CanonicalPath(routes[k]) IN
            GapReported(p) <=>
                /\ p \notin Range(plan.include)
                /\ ~IncludeRegexCovers(p)
                /\ ~ExcludeRegexCovers(p)

\* C5 amended: test_coverage stops with re.error at the first route whose
\* path is neither a literal plan entry nor a valid regular expression; a gap
\* is reported for a live route iff the route was processed before that, its
\* path is a literal member of neither plan.include nor plan.exclude, the
\* path compiled as a regular expression prefix-matches no include entry, and
\* no valid exclude entry prefix-matches the path.
C5_GapIffUncoveredByCode ==
    covPc = "verified" =>
        /\ covResult.raised <=> FirstBadRoute # 0
        /\ covResult.checked =
               IF FirstBadRoute = 0 THEN Len(routes) ELSE FirstBadRoute - 1
        /\ \A k \in 1..Len(routes) :
               LET p == CanonicalPath(routes[k]) IN
               GapReported(p) <=>
                   /\ Processed(routes[k])
                   /\ ~LiteralEntry(p)
                   /\ ~RouteRegexCoversInclude(p)
                   /\ ~ExcludeRegexCovers(p)

\* a gap is reported, and another path is covered only because the route as a
\* regular expression matches an include entry, or only because it is a
\* literal exclude entry
C5_Witness ==
    /\ covPc = "verified"
    /\ planSource = "authored"
    /\ covResult.gaps # <<>>
    /\ \E k \in 1..Len(routes) :
           LET p == CanonicalPath(routes[k]) IN
           /\ Processed(routes[k])
           /\ ~GapReported(p)
           /\ \/ (~LiteralEntry(p) /\ RouteRegexCoversInclude(p)
                    /\ ~ExcludeRegexCovers(p))
              \/ (p \in Range(plan.exclude) /\ p \notin Range(plan.include)
                    /\ ~ExcludeRegexCovers(p))

\* C6: test_coverage on the plan generate_default_urls makes from the same
\* route table reports no gap (and completes).
C6_GeneratedPlanHasNoGaps ==
    (covPc = "verified" /\ planSource = "generated") =>
        (covResult.gaps = <<>> /\ ~covResult.raised)

----------------------------------------------------------------------------
(* Inputs of main() *)

MainRouteTables ==
    { << <<"a">>, <<"a", "d", "m", "i", "n">>, <<"<", "a", ">">> >>,
      << <<"a", "(">> >> }

\* ini files with an [include] section
MainPlans ==
    { [include |-> << <<"/", "a", "\\", "Z">>, <<"/">> >>,
       exclude |-> << <<"/", "a", "d", "m", "i", "n">>, <<"/", ".">> >>,
       complex |-> <<>>],
      [include |-> << <<"/", "a", "(">> >>,
       exclude |-> <<>>,
       complex |-> <<>>],
      [include |-> <<>>,
       exclude |-> << <<"/", ".">> >>,
       complex |-> <<>>],
      [include |-> << <<"/">> >>,
       exclude |-> << <<"/", "a", "(">>, <<"/", "a", "d">> >>,
       complex |-> <<>>] }

\* a finding as a validator reports it; the validator may set url itself
Finding(id) == [id |-> id, url |-> <<"?">>]

\* what validate_document may return: category -> group -> sub-group -> list
ToolOutputs ==
    { << <<"success", <<>>>>, <<"failures", <<>>>>,
         <<"warnings", <<>>>>, <<"skipped", <<>>>> >>,
      << <<"success", << <<"g1", << <<"s1", <<Finding("f1")>> >> >> >> >> >>,
         <<"failures", << <<"g1", << <<"s1", <<Finding("f2")>> >>,
                                     <<"s2", <<Finding("f3")>> >> >> >> >> >>,
         <<"warnings", <<>>>>,
         <<"skipped", << <<"g2", << <<"s1", <<Finding("f4")>> >> >> >> >> >> >>,
      << <<"success", <<>>>>, <<"failures", <<>>>>, <<"warnings", <<>>>> >>,
      << <<"success", <<>>>>, <<"failures", <<>>>>,
         <<"warnings", <<>>>>, <<"skipped", <<>>>>,
         <<"errors", << <<"g1", << <<"s1", <<Finding("f5")>> >> >> >> >> >> >>,
      << <<"success", <<>>>>,
         <<"failures", << <<"g3", << <<"s1", <<Finding("f6")>> >> >> >> >> >>,
         <<"warnings", << <<"g3", << <<"s1", <<Finding("f7"),
                                               Finding("f8")>> >> >> >> >> >>,
         <<"skipped", <<>>>> >> }

----------------------------------------------------------------------------
(* main() as a state machine.  pc: "start", "load_conf", "loop", "get_url", *)
(* "got_content", "tools", "display", "raised" (an exception propagates    *)
(* inside the try block), "finally", "exited".                             *)

Init ==
    /\ routes \in MainRouteTables
    /\ plan = EmptyUrls
    /\ planSource = "none"
    /\ covPc = "main"
    /\ covResult = NoCoverage
    /\ pc = "start"
    /\ gatherFlag \in BOOLEAN
    /\ confFile \in {"unparsable", "absent", "include"}
    /\ idx = 0
    /\ url = <<>>
    /\ started = 0
    /\ terminateCalls = 0
    /\ exc = NoExc
    /\ retries = 0
    /\ delay = 0
    /\ attempts = 0
    /\ sleeps = <<>>
    /\ causes = <<>>
    /\ getUrlStatus = "idle"
    /\ contentType = NoHeader
    /\ toolIdx = 0
    /\ results = EmptyResults
    /\ outputs = <<>>
    /\ instantiated = 0
    /\ displayed = 0
    /\ fetched = <<>>
    /\ PureIdle

getUrlVars == <<retries, delay, attempts, sleeps, causes, getUrlStatus>>
pageVars == <<contentType, toolIdx, results, outputs, instantiated>>
procVars == <<started, terminateCalls>>
inputVars == <<routes, gatherFlag, confFile, planSource, covPc, pureVars>>

\* get_url has returned and wcag_on_url has read the response: the locals
\* and the call records of that get_url end
GetUrlLocalsEnd ==
    /\ retries' = 0
    /\ delay' = 0
    /\ attempts' = 0
    /\ sleeps' = <<>>
    /\ causes' = <<>>
    /\ getUrlStatus' = "idle"

\* if args.gather_urls: gather_urls(); return
GatherUrls ==
    /\ pc = "start"
    /\ gatherFlag
    /\ pc' = "exited"
    /\ plan' = generate_default_urls(routes)
    /\ UNCHANGED <<inputVars, covResult, idx, url, fetched, procVars, exc, getUrlVars,
                   pageVars, displayed>>

\* a = run_server(host, port)
RunServer ==
    /\ pc = "start"
    /\ ~gatherFlag
    /\ started' = started + 1
    /\ pc' = "load_conf"
    /\ UNCHANGED <<inputVars, plan, covResult, idx, url, fetched, terminateCalls, exc,
                   getUrlVars, pageVars, displayed>>

\* config = load_conf(): config.read raises on a file it cannot parse
LoadConfRaises ==
    /\ pc = "load_conf"
    /\ confFile = "unparsable"
    /\ exc' = [kind |-> "configparser.Error"]
    /\ pc' = "exited"
    /\ UNCHANGED <<inputVars, plan, covResult, idx, url, fetched, procVars, getUrlVars,
                   pageVars, displayed>>

\* if "include" in config.sections(): urls = config; test_coverage(urls, logger)
UseConfig ==
    /\ pc = "load_conf"
    /\ confFile = "include"
    /\ \E p \in MainPlans :
         /\ plan' = p
         /\ covResult' = test_coverage(p, routes)
         /\ IF test_coverage(p, routes).raised
            THEN exc' = [kind |-> "re.error"] /\ pc' = "exited"
            ELSE exc' = exc /\ pc' = "loop"
    /\ UNCHANGED <<inputVars, idx, url, fetched, procVars, getUrlVars, pageVars,
                   displayed>>

\* else: urls = generate_default_urls()
UseDefaults ==
    /\ pc = "load_conf"
    /\ confFile = "absent"
    /\ plan' = generate_default_urls(routes)
    /\ pc' = "loop"
    /\ UNCHANGED <<inputVars, covResult, idx, url, fetched, procVars, exc, getUrlVars,
                   pageVars, displayed>>

\* for url in urls["include"]: url = sanitise_url(url); wcag_on_url(...) up to
\* the first requests.get of get_url
LoopNext ==
    /\ pc = "loop"
    /\ idx < Len(LoopUrls(plan))
    /\ idx' = idx + 1
    /\ url' = sanitise_url(LoopUrls(plan)[idx + 1])
    /\ fetched' = Append(fetched, PageUrl(sanitise_url(LoopUrls(plan)[idx + 1])))
    /\ results' = EmptyResults
    /\ outputs' = <<>>
    /\ instantiated' = 0
    /\ toolIdx' = 0
    /\ contentType' = NoHeader
    /\ retries' = InitialRetries
    /\ delay' = InitialDelay
    /\ attempts' = 0
    /\ sleeps' = <<>>
    /\ causes' = <<>>
    /\ getUrlStatus' = "running"
    /\ pc' = "get_url"
    /\ UNCHANGED <<inputVars, plan, covResult, procVars, exc, displayed>>

\* the for loop of main ends
LoopEnd ==
    /\ pc = "loop"
    /\ idx = Len(LoopUrls(plan))
    /\ pc' = "finally"
    /\ UNCHANGED <<inputVars, plan, covResult, idx, url, fetched, procVars, exc,
                   getUrlVars, pageVars, displayed>>

\* get_url: requests.get returns; return content
GetUrlReturns ==
    /\ pc = "get_url"
    /\ attempts' = attempts + 1
    /\ contentType' \in ContentTypes \cup {NoHeader}
    /\ getUrlStatus' = "returned"
    /\ pc' = "got_content"
    /\ UNCHANGED <<inputVars, plan, covResult, idx, url, fetched, procVars, exc,
                   retries, delay, sleeps, causes, toolIdx, results, outputs,
                   instantiated, displayed>>

\* get_url: requests.get raises e, the except clause catches it and
\* retries > 0: retries -= 1; time.sleep(delay); delay *= 2
GetUrlRetries ==
    /\ pc = "get_url"
    /\ \E kind \in FailKinds :
         /\ ExceptClauseCatches(kind)
         /\ causes' = Append(causes, [kind |-> kind, attempt |-> attempts + 1])
    /\ CanRetry(retries)
    /\ attempts' = attempts + 1
    /\ retries' = retries - 1
    /\ sleeps' = Append(sleeps, delay)
    /\ delay' = NextDelay(delay)
    /\ UNCHANGED <<inputVars, plan, covResult, pc, idx, url, fetched, procVars, exc,
                   getUrlStatus, pageVars, displayed>>

\* get_url: requests.get raises e, the except clause catches it and no retry
\* is left: raise ConnectionError("Failed to reach server") from e
GetUrlGivesUp ==
    /\ pc = "get_url"
    /\ ~CanRetry(retries)
    /\ \E kind \in FailKinds :
         /\ ExceptClauseCatches(kind)
         /\ causes' = Append(causes, [kind |-> kind, attempt |-> attempts + 1])
         /\ exc' = FailedToReachServer([kind |-> kind, attempt |-> attempts + 1])
    /\ attempts' = attempts + 1
    /\ getUrlStatus' = "raised"
    /\ pc' = "raised"
    /\ UNCHANGED <<inputVars, plan, covResult, idx, url, fetched, procVars, retries,
                   delay, sleeps, pageVars, displayed>>

\* get_url: requests.get raises something the except clause does not catch
GetUrlPropagates ==
    /\ pc = "get_url"
    /\ \E kind \in FailKinds :
         /\ ~ExceptClauseCatches(kind)
         /\ causes' = Append(causes, [kind |-> kind, attempt |-> attempts + 1])
         /\ exc' = [kind |-> kind, attempt |-> attempts + 1]
    /\ attempts' = attempts + 1
    /\ getUrlStatus' = "raised"
    /\ pc' = "raised"
    /\ UNCHANGED <<inputVars, plan, covResult, idx, url, fetched, procVars, retries,
                   delay, sleeps, pageVars, displayed>>

\* wcag_on_url: content_type = content.headers["Content-Type"] raises KeyError
NoContentType ==
    /\ pc = "got_content"
    /\ contentType = NoHeader
    /\ exc' = [kind |-> "KeyError"]
    /\ pc' = "raised"
    /\ GetUrlLocalsEnd
    /\ UNCHANGED <<inputVars, plan, covResult, idx, url, fetched, procVars, pageVars,
                   displayed>>

\* wcag_on_url: if not content_type.startswith("text/html"): return results
SkipNotHtml ==
    /\ pc = "got_content"
    /\ contentType # NoHeader
    /\ ~IsHtmlContent(contentType)
    /\ pc' = "display"
    /\ GetUrlLocalsEnd
    /\ UNCHANGED <<inputVars, plan, covResult, idx, url, fetched, procVars, exc,
                   pageVars, displayed>>

\* wcag_on_url: the content is HTML, the for loop over tools starts
StartTools ==
    /\ pc = "got_content"
    /\ contentType # NoHeader
    /\ IsHtmlContent(contentType)
    /\ toolIdx' = 1
    /\ pc' = "tools"
    /\ GetUrlLocalsEnd
    /\ UNCHANGED <<inputVars, plan, covResult, idx, url, fetched, procVars, exc,
                   contentType, results, outputs, instantiated, displayed>>

\* wcag_on_url: one iteration of the for loop over tools, the validator
\* returns out: wcag_tool_on_content, then combine_results
RunTool ==
    /\ pc = "tools"
    /\ instantiated' = instantiated + 1
    /\ \E out \in ToolOutputs :
         /\ outputs' = Append(outputs, out)
         /\ IF ToolRaisesKeyError(out)
            THEN /\ exc' = [kind |-> "KeyError"]
                 /\ pc' = "raised"
                 /\ UNCHANGED <<toolIdx, results>>
            ELSE IF CombineRaises(results, wcag_tool_on_content(out, PageUrl(url)))
            THEN /\ exc' = [kind |-> "KeyError"]
                 /\ pc' = "raised"
                 /\ UNCHANGED <<toolIdx, results>>
            ELSE /\ results' =
                      combine_results(results, wcag_tool_on_content(out, PageUrl(url)))
                 /\ toolIdx' = toolIdx + 1
                 /\ pc' = IF toolIdx = Len(tools) THEN "display" ELSE "tools"
                 /\ exc' = exc
    /\ UNCHANGED <<inputVars, plan, covResult, idx, url, fetched, procVars, getUrlVars,
                   contentType, displayed>>

ToolRaises_Swallowed ==
    /\ pc = "tools"
    /\ instantiated' = instantiated + 1
    /\ toolIdx' = toolIdx + 1
    /\ pc' = IF toolIdx = Len(tools) THEN "display" ELSE "tools"
    /\ UNCHANGED <<inputVars, plan, covResult, idx, url, fetched, procVars, getUrlVars,
                   contentType, exc, results, outputs, displayed>>

\* wcag_on_url: the validator itself raises
ToolRaises ==
    /\ pc = "tools"
    /\ instantiated' = instantiated + 1
    /\ exc' = [kind |-> "ValidatorError"]
    /\ pc' = "raised"
    /\ UNCHANGED <<inputVars, plan, covResult, idx, url, fetched, procVars, getUrlVars,
                   contentType, toolIdx, results, outputs, displayed>>

\* display_results(result, logger); the locals of the iteration are dropped
Display ==
    /\ pc = "display"
    /\ displayed' = displayed + 1
    /\ results' = EmptyResults
    /\ outputs' = <<>>
    /\ instantiated' = 0
    /\ toolIdx' = 0
    /\ contentType' = NoHeader
    /\ pc' = "loop"
    /\ UNCHANGED <<inputVars, plan, covResult, idx, url, fetched, procVars, exc,
                   getUrlVars>>

ExceptConnectionError_SkipsPage ==
    /\ pc = "raised"
    /\ exc.kind = "ConnectionError"
    /\ exc' = NoExc
    /\ pc' = "loop"
    /\ UNCHANGED <<inputVars, plan, covResult, idx, url, fetched, procVars, getUrlVars,
                   pageVars, displayed>>

\* except ConnectionError as e: logger.debug(...); a.terminate()
ExceptConnectionError ==
    /\ pc = "raised"
    /\ exc.kind = "ConnectionError"
    /\ terminateCalls' = terminateCalls + 1
    /\ exc' = NoExc
    /\ pc' = "finally"
    /\ UNCHANGED <<inputVars, plan, covResult, idx, url, fetched, started, getUrlVars,
                   pageVars, displayed>>

\* any other exception leaves the try block unhandled
Unhandled ==
    /\ pc = "raised"
    /\ exc.kind # "ConnectionError"
    /\ pc' = "finally"
    /\ UNCHANGED <<inputVars, plan, covResult, idx, url, fetched, procVars, exc,
                   getUrlVars, pageVars, displayed>>

\* finally: logger.debug("Terminating server process"); a.terminate()
Finally ==
    /\ pc = "finally"
    /\ terminateCalls' = terminateCalls + 1
    /\ pc' = "exited"
    /\ UNCHANGED <<inputVars, plan, covResult, idx, url, fetched, started, exc,
                   getUrlVars, pageVars, displayed>>

Next ==
    \/ GatherUrls
    \/ RunServer
    \/ LoadConfRaises
    \/ UseConfig
    \/ UseDefaults
    \/ LoopNext
    \/ LoopEnd
    \/ GetUrlReturns
    \/ GetUrlRetries
    \/ GetUrlGivesUp
    \/ GetUrlPropagates
    \/ NoContentType
    \/ SkipNotHtml
    \/ StartTools
    \/ RunTool
    \/ ToolRaises
    \/ Display
    \/ ExceptConnectionError
    \/ Unhandled
    \/ Finally

Spec == Init /\ [][Next]_vars

----------------------------------------------------------------------------
(* Claims about main() and get_url (Spec) *)

AllTransport(cs) == \A k \in 1..Len(cs) : cs[k].kind \in TransportKinds

\* main() ended before its try block: --gather-urls, or an error of load_conf
\* or test_coverage
EndedBeforeTry ==
    gatherFlag \/ exc.kind \in {"configparser.Error", "re.error"}

\* C1: on every exit path of main that follows the start of the subprocess,
\* the subprocess has been terminated.
C1_TerminatedOnEveryExit ==
    (pc = "exited" /\ started >= 1) => terminateCalls >= 1

\* C2: when the transport fails N <= 3 times and then succeeds, get_url
\* returns after exactly N+1 GET attempts and has slept the first N terms of
\* 1, 2, 4 in that order, 2^N - 1 seconds in total; a transport that has
\* failed fewer than 4 times never makes get_url raise.
C2_RetriesThenReturns ==
    AllTransport(causes) =>
        /\ getUrlStatus = "returned" =>
               /\ Len(causes) <= 3
               /\ attempts = Len(causes) + 1
               /\ sleeps = SubSeq(<<1, 2, 4>>, 1, Len(causes))
               /\ SumSeq(sleeps) = 2 ^ Len(causes) - 1
        /\ getUrlStatus = "raised" => Len(causes) > 3

C2_Witness ==
    /\ getUrlStatus = "returned"
    /\ AllTransport(causes)
    /\ Len(causes) = 3
    /\ attempts = 4
    /\ sleeps = <<1, 2, 4>>

\* C3: when the transport fails 4 times in a row, get_url raises the terminal
\* fetch error after exactly 4 GET attempts, never makes a 5th, and the error
\* carries the exception of the 4th attempt as its cause.
C3_GivesUpAfterFourAttempts ==
    /\ attempts <= 4
    /\ (Len(causes) >= 4 /\ AllTransport(causes)) =>
           /\ getUrlStatus = "raised"
           /\ attempts = 4
           /\ Len(causes) = 4
           /\ pc = "raised" =>
                  /\ exc.kind = "ConnectionError"
                  /\ exc.cause = causes[4]
                  /\ exc.cause.attempt = 4

C3_Witness ==
    /\ pc = "raised"
    /\ getUrlStatus = "raised"
    /\ AllTransport(causes)
    /\ attempts = 4
    /\ exc.kind = "ConnectionError"
    /\ exc.cause = causes[4]

\* C4: an exception that is no transport-layer failure, raised during an
\* attempt of get_url, propagates to the caller after that attempt: no sleep
\* and no further attempt follow it, and the caller sees that exception.
C4_OnlyTransportFailuresRetried ==
    \A k \in 1..Len(causes) :
        causes[k].kind \notin TransportKinds =>
            /\ Len(causes) = k
            /\ attempts = k
            /\ Len(sleeps) = k - 1
            /\ getUrlStatus = "raised"
            /\ pc = "raised" => exc = causes[k]

\* C7: when the ini file is unparsable the subprocess is never started.
C7_ConfigLoadedBeforeServerStart ==
    confFile = "unparsable" => started = 0

\* C8: the subprocess is started at most once and a.terminate() is never
\* invoked twice; on every exit path through the try block of main it has
\* been invoked exactly once.
C8_StartedAndTerminatedOnce ==
    /\ started <= 1
    /\ terminateCalls <= 1
    /\ (pc = "exited" /\ ~EndedBeforeTry) =>
           (started = 1 /\ terminateCalls = 1)

\* the findings in a nested validator output
RECURSIVE CountSubs(_)
CountSubs(subs) ==
    IF subs = <<>> THEN 0 ELSE Len(Head(subs)[2]) + CountSubs(Tail(subs))
RECURSIVE CountGroups(_)
CountGroups(groups) ==
    IF groups = <<>> THEN 0
    ELSE CountSubs(Head(groups)[2]) + CountGroups(Tail(groups))
RECURSIVE CountOutput(_)
CountOutput(out) ==
    IF out = <<>> THEN 0
    ELSE CountGroups(Head(out)[2]) + CountOutput(Tail(out))
RECURSIVE CountOutputs(_)
CountOutputs(outs) ==
    IF outs = <<>> THEN 0
    ELSE CountOutput(Head(outs)) + CountOutputs(Tail(outs))

CountResults(res) ==
    Len(res["success"]) + Len(res["failures"]) + Len(res["warnings"])
        + Len(res["skipped"])

\* C9: once a validator has returned an output whose category keys are not
\* exactly the canonical four, wcag_on_url raises a fatal error; a result it
\* hands to display_results holds every finding the validators returned.
C9_SchemaMismatchIsFatal ==
    /\ \A k \in 1..Len(outputs) :
           DictKeys(outputs[k]) # Range(CanonicalKeys) =>
               (pc \in {"raised", "finally", "exited"} /\ exc.kind = "KeyError")
    /\ pc = "display" => CountResults(results) = CountOutputs(outputs)

\* the media type of a Content-Type header: the text before the first ";"
RECURSIVE MediaType(_)
MediaType(ct) ==
    IF ct = <<>> \/ Head(ct) = ";" THEN <<>>
    ELSE <<Head(ct)>> \o MediaType(Tail(ct))

IsHtmlType(ct) == MediaType(ct) = TextHtml

\* C10: while wcag_on_url handles a response whose declared media type is not
\* HTML, no validator is instantiated or invoked, the result stays all-empty,
\* and the only step wcag_on_url takes is to return it.
C10_NonHtmlSkipsValidators ==
    (contentType # NoHeader /\ ~IsHtmlType(contentType)) =>
        /\ pc \in {"got_content", "display"}
        /\ instantiated = 0
        /\ outputs = <<>>
        /\ results = EmptyResults

C10_Witness ==
    /\ pc = "display"
    /\ contentType # NoHeader
    /\ ~IsHtmlType(contentType)
    /\ instantiated = 0
    /\ results = EmptyResults

\* the findings of every bucket of a result
AllFindings(res) == UNION {Range(res[h]) : h \in DOMAIN res}

\* C11: every finding in every bucket of the result wcag_on_url returns for a
\* page carries the url of that page (here: of the page most recently passed
\* to get_url), whatever url the validator put on it.
C11_FindingsCarryPageUrl ==
    pc \in {"tools", "display"} =>
        /\ fetched[Len(fetched)] = PageUrl(url)
        /\ \A f \in AllFindings(results) : f.url = PageUrl(url)

\* the second page's result is about to be reported and its findings, which
\* the validator labelled otherwise, carry the second page's url
C11_Witness ==
    /\ pc = "display"
    /\ idx = 2
    /\ fetched[1] # fetched[2]
    /\ AllFindings(results) # {}
    /\ \A f \in AllFindings(results) : f.url = fetched[2] /\ f.url # Finding(f.id).url

----------------------------------------------------------------------------
(* combine_results as a pure function (SpecCombine) *)

MaxBucket == 1

FindingPool == {Finding("f1"), Finding("f2")}

BucketLists == SeqsUpTo(FindingPool, MaxBucket)

\* results with the four canonical buckets
CombineCanonical ==
    { [success |-> <<>>, failures |-> f, warnings |-> w, skipped |-> <<>>] :
        f \in BucketLists, w \in BucketLists }

\* results whose key set is not the canonical one: a bucket missing, a
\* bucket more, a bucket under another name
CombineOther ==
    { [success |-> <<>>, failures |-> <<Finding("f1")>>, warnings |-> <<>>],
      [success |-> <<>>, failures |-> <<>>, warnings |-> <<>>,
       skipped |-> <<>>, errors |-> <<Finding("f2")>>],
      [success |-> <<>>, failures |-> <<>>, warnings |-> <<>>,
       ignored |-> <<Finding("f1")>>] }

CombineInputs == CombineCanonical \cup CombineOther

\* the outcome of a call: a returned value, or KeyError and no value
NoValue == [none |-> TRUE]
Returned(v) == [raised |-> FALSE, value |-> v]
RaisedKeyError == [raised |-> TRUE, value |-> NoValue]

\* combine_results(res1, res2), as its caller sees it
CombineCall(res1, res2) ==
    IF CombineRaises(res1, res2) THEN RaisedKeyError
    ELSE Returned(combine_results(res1, res2))

\* combine_results(o1, o2) for the outcomes of two earlier calls: an earlier
\* KeyError has already left the caller
CombineOutcomes(o1, o2) ==
    IF o1.raised \/ o2.raised THEN RaisedKeyError
    ELSE CombineCall(o1.value, o2.value)

CovIdle ==
    /\ routes = <<>>
    /\ plan = EmptyUrls
    /\ planSource = "none"
    /\ covPc = "idle"
    /\ covResult = NoCoverage

InitCombine ==
    /\ call \in [a : CombineInputs, b : CombineInputs, c : CombineInputs]
    /\ ret = <<>>
    /\ callPc = "start"
    /\ CovIdle
    /\ pc = "idle"
    /\ gatherFlag = FALSE
    /\ confFile = "absent"
    /\ idx = 0
    /\ url = <<>>
    /\ started = 0
    /\ terminateCalls = 0
    /\ exc = NoExc
    /\ retries = 0
    /\ delay = 0
    /\ attempts = 0
    /\ sleeps = <<>>
    /\ causes = <<>>
    /\ getUrlStatus = "idle"
    /\ contentType = NoHeader
    /\ toolIdx = 0
    /\ results = EmptyResults
    /\ outputs = <<>>
    /\ instantiated = 0
    /\ displayed = 0
    /\ fetched = <<>>

notPureVars ==
    <<routes, plan, planSource, covPc, covResult, pc, gatherFlag, confFile,
      idx, url, started, terminateCalls, exc, retries, delay, attempts,
      sleeps, causes, getUrlStatus, contentType, toolIdx, results, outputs,
      instantiated, displayed, fetched>>

\* the calls of combine_results on a, b, c and on the empty result
CombineTriple ==
    /\ callPc = "start"
    /\ ret' = [ab   |-> CombineCall(call.a, call.b),
               ab_c |-> CombineOutcomes(CombineCall(call.a, call.b),
                                        Returned(call.c)),
               a_bc |-> CombineOutcomes(Returned(call.a),
                                        CombineCall(call.b, call.c)),
               ea   |-> CombineCall(EmptyResults, call.a),
               ae   |-> CombineCall(call.a, EmptyResults)]
    /\ callPc' = "done"
    /\ UNCHANGED call
    /\ UNCHANGED notPureVars

SpecCombine == InitCombine /\ [][CombineTriple]_vars

AllCanonical ==
    /\ call.a \in CombineCanonical
    /\ call.b \in CombineCanonical
    /\ call.c \in CombineCanonical

\* C12: over results with the four canonical buckets combine_results is
\* associative, and the all-empty result is its left and right identity.
C12_CombineAssociativeWithIdentity ==
    (callPc = "done" /\ AllCanonical) =>
        /\ ~ret.ab_c.raised
        /\ ret.ab_c = ret.a_bc
        /\ ret.ea = Returned(call.a)
        /\ ret.ae = Returned(call.a)

C12_Witness ==
    /\ callPc = "done"
    /\ AllCanonical
    /\ call.a.failures # <<>> /\ call.b.failures # <<>> /\ call.c.warnings # <<>>
    /\ call.a.failures # call.b.failures
    /\ ret.ab_c.value.failures = call.a.failures \o call.b.failures
    /\ ret.ab_c = ret.a_bc
    /\ ret.ea.value = call.a

RECURSIVE SumLens(_, _)
SumLens(res, ks) ==
    IF ks = {} THEN 0
    ELSE LET k == CHOOSE x \in ks : TRUE
         IN Len(res[k]) + SumLens(res, ks \ {k})

CountAll(res) == SumLens(res, DOMAIN res)

\* C13: when the key sets of its two arguments differ, combine_results raises
\* and returns nothing; when it returns, no finding of either argument is
\* missing from the result.
C13_CombineRaisesOnKeyMismatch ==
    callPc = "done" =>
        /\ DOMAIN call.a # DOMAIN call.b => ret.ab = RaisedKeyError
        /\ ~ret.ab.raised =>
               CountAll(ret.ab.value) = CountAll(call.a) + CountAll(call.b)

\* the second argument has a bucket, holding a finding, that the first lacks
C13_Witness ==
    /\ callPc = "done"
    /\ DOMAIN call.a \subseteq DOMAIN call.b
    /\ DOMAIN call.a # DOMAIN call.b
    /\ \E k \in DOMAIN call.b \ DOMAIN call.a : call.b[k] # <<>>
    /\ ret.ab.raised
    /\ ret.ab.value = NoValue

----------------------------------------------------------------------------
(* generate_default_urls as a pure function (SpecClassify) *)

MaxTable == 3

\* route patterns: plain, under each excluded prefix, parameterized, under
\* an excluded prefix and parameterized, and with ">" before "<"
ClassifyPool ==
    { <<>>,
      <<"a">>,
      <<"a", "d", "m", "i", "n">>,
      <<"m", "e", "d", "i", "a">>,
      <<"s", "t", "a", "t", "i", "c", "/", "<", "a", ">">>,
      <<"_", "_", "d", "e", "b", "u", "g", "_", "_">>,
      <<"<", "a", ">">>,
      <<">", "a", "<">> }

InitClassify ==
    /\ routes \in SeqsUpTo(ClassifyPool, MaxTable)
    /\ plan = EmptyUrls
    /\ planSource = "none"
    /\ covPc = "start"
    /\ covResult = NoCoverage
    /\ MainIdle

SpecClassify == InitClassify /\ [][CovGenerate]_vars

\* C14: the include, exclude and complex buckets generate_default_urls makes
\* are pairwise disjoint, and their union is the set of the route patterns.
C14_BucketsPartitionRoutes ==
    planSource = "generated" =>
        /\ Range(plan.include) \cap Range(plan.exclude) = {}
        /\ Range(plan.include) \cap Range(plan.complex) = {}
        /\ Range(plan.exclude) \cap Range(plan.complex) = {}
        /\ Range(plan.include) \cup Range(plan.exclude) \cup Range(plan.complex)
               = Range(routes)

\* all three buckets are filled, one of them by a route that is under an
\* excluded prefix and parameterized
C14_Witness ==
    /\ planSource = "generated"
    /\ plan.include # <<>>
    /\ plan.complex # <<>>
    /\ \E k \in 1..Len(plan.exclude) :
           url_test_includes_values(plan.exclude[k])
    /\ Range(plan.include) \cup Range(plan.exclude) \cup Range(plan.complex)
           = Range(routes)

\* no element occurs at two positions of the sequence
NoDuplicates(s) == \A i, j \in 1..Len(s) : s[i] = s[j] => i = j

\* the position of the first occurrence of x in the sequence s
FirstIndex(s, x) ==
    CHOOSE k \in 1..Len(s) : s[k] = x /\ \A m \in 1..(k - 1) : s[m] # x

\* the elements of the bucket are in the order of their first appearance in
\* the table
InFirstSeenOrder(bucket, table) ==
    \A i, j \in 1..Len(bucket) :
        (i < j /\ bucket[i] # bucket[j]) =>
            FirstIndex(table, bucket[i]) < FirstIndex(table, bucket[j])

\* C21: each bucket generate_default_urls makes is an ordered set in
\* first-seen order: it lists each distinct pattern once, in the order of
\* the pattern's first appearance in the route table, also when the table
\* holds the same pattern more than once.
C21_BucketsAreOrderedSets ==
    planSource = "generated" =>
        \A b \in {plan.include, plan.exclude, plan.complex} :
            /\ NoDuplicates(b)
            /\ Range(b) \subseteq Range(routes)
            /\ InFirstSeenOrder(b, routes)

----------------------------------------------------------------------------
(* More claims about main() (Spec) *)

\* the exit status of the process once main() has ended: 0 when main()
\* returns, 1 when an exception leaves it
ExitStatus == IF exc = NoExc THEN 0 ELSE 1

\* get_url gave up: it raised ConnectionError("Failed to reach server")
TerminalFetchFailure ==
    /\ getUrlStatus = "raised"
    /\ causes # <<>>
    /\ ExceptClauseCatches(causes[Len(causes)].kind)

\* a validator of the current page returned other keys than the canonical four
SchemaMismatch ==
    \E k \in 1..Len(outputs) : DictKeys(outputs[k]) # Range(CanonicalKeys)

\* C15: the exit status is non-zero after a terminal fetch failure or a
\* schema mismatch, and zero after a run that reported every included page
\* without either.
C15_ExitStatus ==
    pc = "exited" =>
        /\ (TerminalFetchFailure \/ SchemaMismatch) => ExitStatus # 0
        /\ (~EndedBeforeTry /\ displayed = Len(LoopUrls(plan))
              /\ ~TerminalFetchFailure /\ ~SchemaMismatch) => ExitStatus = 0

\* C17: in every run only entries of the include bucket of the plan are
\* fetched, in their order: the k-th request is for the k-th include entry,
\* and no entry that is only in the exclude or the complex bucket is ever
\* requested.
C17_OnlyIncludeFetched ==
    /\ Len(fetched) <= Len(plan.include)
    /\ \A k \in 1..Len(fetched) :
           fetched[k] = PageUrl(sanitise_url(plan.include[k]))
    /\ \A e \in (Range(plan.exclude) \cup Range(plan.complex))
                    \ Range(plan.include) :
           PageUrl(sanitise_url(e)) \notin Range(fetched)

\* a generated plan with entries in all three buckets, every include entry
\* fetched and the run over
C17_Witness ==
    /\ pc = "exited"
    /\ plan.complex # <<>>
    /\ plan.exclude # <<>>
    /\ plan.include # <<>>
    /\ Len(fetched) = Len(plan.include)

\* an exclude entry of the plan is not a valid regular expression
HasInvalidExclude ==
    \E k \in 1..Len(plan.exclude) : ~RegexValid(plan.exclude[k])

\* the route path is covered by a valid exclude entry that comes after an
\* invalid one
CoveredAfterInvalid(p) ==
    \E j, k \in 1..Len(plan.exclude) :
        /\ j < k
        /\ ~RegexValid(plan.exclude[j])
        /\ RegexValid(plan.exclude[k])
        /\ RegexMatch(plan.exclude[k], p)

\* C18: an exclude entry that is not a valid regular expression is skipped:
\* the audit stops only at a route whose own path does not compile, every
\* route it processes is still tested against the valid exclude entries
\* (those after the invalid one included), and a run whose audit reported
\* gaps goes on into the try block of main rather than ending there.
C18_InvalidExcludeSkipped ==
    (confFile = "include" /\ pc \notin {"start", "load_conf"}
        /\ HasInvalidExclude) =>
        /\ covResult.raised <=> FirstBadRoute # 0
        /\ covResult.checked =
               IF FirstBadRoute = 0 THEN Len(routes) ELSE FirstBadRoute - 1
        /\ \A k \in 1..covResult.checked :
               LET p == CanonicalPath(routes[k]) IN
               GapReported(p) <=>
                   /\ ~LiteralEntry(p)
                   /\ ~RouteRegexCoversInclude(p)
                   /\ ~ExcludeRegexCovers(p)
        /\ (covResult.gaps # <<>> /\ ~covResult.raised) =>
               /\ exc.kind # "re.error"
               /\ pc = "exited" => terminateCalls >= 1

\* the plan has an invalid exclude entry followed by a valid one that covers a
\* live route; gaps were reported for other routes, and the run went on to
\* fetch and report the include entries
C18_Witness ==
    /\ pc = "exited"
    /\ confFile = "include"
    /\ HasInvalidExclude
    /\ covResult.checked = Len(routes)
    /\ covResult.gaps # <<>>
    /\ \E k \in 1..Len(routes) :
           /\ CoveredAfterInvalid(CanonicalPath(routes[k]))
           /\ ~LiteralEntry(CanonicalPath(routes[k]))
           /\ ~GapReported(CanonicalPath(routes[k]))
    /\ displayed = Len(plan.include)
    /\ displayed >= 1

\* the concatenation of a sequence of sequences, in order
RECURSIVE ConcatAll(_)
ConcatAll(ss) == IF ss = <<>> THEN <<>> ELSE Head(ss) \o ConcatAll(Tail(ss))

\* the lists of findings of all sub-groups of all groups of a category, in the
\* order the validator reported them
SubLists(groups) ==
    ConcatAll([g \in 1..Len(groups) |->
                  [j \in 1..Len(groups[g][2]) |-> groups[g][2][j][2]]])

\* the findings one validator reported under category h
ReportedUnder(out, h) ==
    IF h \in DictKeys(out) THEN ConcatAll(SubLists(DictValue(out, h))) ELSE <<>>

\* the findings the validators run so far reported under category h, in the
\* order the validators ran
ReportedByAll(outs, h) ==
    ConcatAll([k \in 1..Len(outs) |-> ReportedUnder(outs[k], h)])

Ids(findings) == [k \in 1..Len(findings) |-> findings[k].id]

\* C19: while the validators run on one HTML page and when its result is
\* handed to the report, each of the four buckets holds exactly the findings
\* the validators run so far reported under that category, in validator
\* order and in each validator's own order (none lost, repeated or moved);
\* at the report every one of the four validators has been invoked exactly
\* once and the page was requested once.
C19_BucketsAreOrderedConcatenation ==
    pc \in {"tools", "display"} =>
        /\ DOMAIN results = Range(CanonicalKeys)
        /\ \A h \in Range(CanonicalKeys) :
               Ids(results[h]) = Ids(ReportedByAll(outputs, h))
        /\ instantiated = Len(outputs)
        /\ Len(fetched) = idx
        /\ (pc = "display" /\ IsHtmlContent(contentType)) =>
               instantiated = Len(tools)

\* two validators reported failures on the same page, one of them in two
\* sub-groups, and the result is ready for the report
C19_Witness ==
    /\ pc = "display"
    /\ Len(outputs) = Len(tools)
    /\ Ids(results["failures"]) = <<"f2", "f3", "f6">>
    /\ Ids(results["warnings"]) = <<"f7", "f8">>

\* a validator was invoked on the current page and returned nothing: it raised
ValidatorRaised == instantiated > Len(outputs)

\* C20: once a validator has raised on a page, the exception is on its way
\* out of main (no validator runs again, the page is not requested again:
\* one request per loop iteration and one invocation more than the outputs
\* returned), the buckets gathered so far for the page are never reported,
\* and the exception that leaves main is the validator's.
C20_ValidatorExceptionPropagates ==
    ValidatorRaised =>
        /\ pc \in {"raised", "finally", "exited"}
        /\ exc.kind = "ValidatorError"
        /\ instantiated = Len(outputs) + 1
        /\ Len(fetched) = idx
        /\ displayed = idx - 1
        /\ getUrlStatus = "idle"

\* the third validator raised on the second page after two validators had
\* reported findings; the run is over and only the first page was reported
C20_Witness ==
    /\ ValidatorRaised
    /\ pc = "exited"
    /\ idx = 2
    /\ displayed = 1
    /\ Len(outputs) = 2
    /\ results["failures"] # <<>>
    /\ terminateCalls >= 1

\* get_url has raised out of the fetch of the current page
FetchFailedTerminally == getUrlStatus = "raised"

\* one step of main(), as far as the order of pages is concerned
C22_Step ==
    /\ fetched' # fetched =>
           /\ pc = "loop"
           /\ ~FetchFailedTerminally
           /\ terminateCalls = 0
           /\ displayed = idx
           /\ Len(fetched) = idx
           /\ idx' = idx + 1
           /\ fetched' =
                  Append(fetched, PageUrl(sanitise_url(plan.include[idx + 1])))
    /\ instantiated' > instantiated =>
           /\ Len(fetched) = idx
           /\ displayed = idx - 1
           /\ ~FetchFailedTerminally
    /\ displayed' # displayed =>
           /\ displayed' = idx
           /\ Len(fetched) = idx
    /\ FetchFailedTerminally =>
           /\ FetchFailedTerminally'
           /\ fetched' = fetched
           /\ idx' = idx
           /\ instantiated' = instantiated
           /\ displayed' = displayed
           /\ pc' = "exited" => terminateCalls' >= 1

\* C22: included URLs are processed strictly one at a time in plan order: a
\* request is made only from the head of the loop, for the next include
\* entry, after the result of every earlier page has been reported, and
\* validators run only on the page requested last; once a fetch has failed
\* terminally, no URL is requested, validated or reported any more, and the
\* subprocess is terminated before main ends.
C22_SequentialAndFailureEndsRun == [][C22_Step]_vars

\* the fetch of the first of two include entries failed terminally; the run
\* ended with the subprocess terminated and the second entry never requested
C22_Witness ==
    /\ pc = "exited"
    /\ FetchFailedTerminally
    /\ Len(plan.include) = 2
    /\ idx = 1
    /\ Len(fetched) = 1
    /\ displayed = 0
    /\ terminateCalls >= 1

----------------------------------------------------------------------------
(* Reporting: dwr_logging.py, Logger; runner.py, process_results_hierarchy  *)
(* and display_results, as a pure function of the result and the logger's  *)
(* threshold (SpecDisplay)                                                 *)

DEBUG == 4
FULL == 3
INFO == 2
WARNING == 1
ERROR == 0

\* choices=[0, 1, 2, 3, 4] of --verbosity
Verbosities == ERROR..DEBUG

LogSuppressed_Inclusive(level, threshold) == level >= threshold

\* Logger.log: if level > self.level: return
LogSuppressed(level, threshold) == level > threshold

\* Logger.log(message, level) on a logger of the given threshold; out is
\* what has been printed so far
LoggerLog(out, threshold, message, level) ==
    IF LogSuppressed(level, threshold) THEN out
    ELSE Append(out, [level |-> level, text |-> message])

\* a printed line of text, and a printed block of findings
Line(str) == [line |-> str, blocks |-> <<>>]
Blocks(b) == [line |-> "", blocks |-> b]

\* the text process_results_hierarchy builds: one block per finding, in
\* order, with the url and the other fields of the finding
process_results_hierarchy(h) ==
    [k \in 1..Len(h) |-> <<"url", h[k].url, "id", h[k].id, "----">>]

\* if len(results[bucket]) > 0: log the heading, then the findings
DisplayBucket(out, threshold, res, bucket, heading, level) ==
    IF Len(res[bucket]) > 0
    THEN LoggerLog(LoggerLog(out, threshold, Line(heading), level), threshold,
                   Blocks(process_results_hierarchy(res[bucket])), level)
    ELSE out

display_results(res, threshold) ==
    LET o1 == DisplayBucket(<<>>, threshold, res, "success", "SUCCESSES", FULL)
        o2 == DisplayBucket(o1, threshold, res, "failures", "FAILURES", ERROR)
        o3 == DisplayBucket(o2, threshold, res, "warnings", "WARNINGS", WARNING)
    IN DisplayBucket(o3, threshold, res, "skipped", "SKIPPED", INFO)

DisplayInputs == [Range(CanonicalKeys) -> BucketLists]

InitDisplay ==
    /\ call \in [results : DisplayInputs, threshold : Verbosities]
    /\ ret = <<>>
    /\ callPc = "start"
    /\ CovIdle
    /\ pc = "idle"
    /\ gatherFlag = FALSE
    /\ confFile = "absent"
    /\ idx = 0
    /\ url = <<>>
    /\ started = 0
    /\ terminateCalls = 0
    /\ exc = NoExc
    /\ retries = 0
    /\ delay = 0
    /\ attempts = 0
    /\ sleeps = <<>>
    /\ causes = <<>>
    /\ getUrlStatus = "idle"
    /\ contentType = NoHeader
    /\ toolIdx = 0
    /\ results = EmptyResults
    /\ outputs = <<>>
    /\ instantiated = 0
    /\ displayed = 0
    /\ fetched = <<>>

\* display_results(result, logger) with logger = Logger(args.verbosity)
DisplayCall ==
    /\ callPc = "start"
    /\ ret' = display_results(call.results, call.threshold)
    /\ callPc' = "done"
    /\ UNCHANGED call
    /\ UNCHANGED notPureVars

SpecDisplay == InitDisplay /\ [][DisplayCall]_vars

\* the heading of the bucket, directly followed by the text of exactly the
\* findings of the bucket, has been printed
Emitted(bucket, heading) ==
    \E k \in 1..(Len(ret) - 1) :
        /\ ret[k].text.line = heading
        /\ ret[k + 1].text.blocks = [j \in 1..Len(call.results[bucket]) |->
               <<"url", call.results[bucket][j].url,
                 "id", call.results[bucket][j].id, "----">>]

====
